---- MODULE Spec2Model ----
(***************************************************************************)
(* Model of the GitHub-Releases portfolio manager (update_portfolio.sh,    *)
(* the script that starts at line 254 of src/update_portfolio.sh): the     *)
(* commands setup, add and update acting on the photo directory, the       *)
(* release and photos.json.                                                *)
(*                                                                         *)
(* Text is modelled as sequences of one-character strings, so that the     *)
(* filename parsing of extract_photo_info (extension stripping, keyword    *)
(* search, last-underscore split, upper-casing) is computed, not assumed.  *)
(* JSON values are tagged records: Num(n), Str(s) and Null.                *)
(***************************************************************************)
EXTENDS Integers, Sequences, FiniteSets, TLC

\* ------------------------------------------------------------------ bounds
\* Number of events in one behaviour that are not runs of setup or add:
\* manual edits (update), changes of the photo directory and midnights.
MaxEvents == 2

\* ------------------------------------------------------------------ characters

LowerChars == <<"a", "b", "c", "d", "e", "f", "g", "h", "i", "j", "k", "l", "m", "n", "o", "p", "q", "r", "s", "t", "u", "v", "w", "x", "y", "z">>
UpperChars == <<"A", "B", "C", "D", "E", "F", "G", "H", "I", "J", "K", "L", "M", "N", "O", "P", "Q", "R", "S", "T", "U", "V", "W", "X", "Y", "Z">>

\* Characters in ascending byte order (the collating order of the C locale),
\* restricted to the characters that occur in the model's file names.
ByteOrder == <<"-", ".", "/", "0", "1", "2", "3", "4", "5", "6", "7", "8", "9", ":", "A", "B", "C", "D", "E", "F", "G", "H", "I", "J", "K", "L", "M", "N", "O", "P", "Q", "R", "S", "T", "U", "V", "W", "X", "Y", "Z", "_", "a", "b", "c", "d", "e", "f", "g", "h", "i", "j", "k", "l", "m", "n", "o", "p", "q", "r", "s", "t", "u", "v", "w", "x", "y", "z">>

IndexIn(seq, c) == CHOOSE i \in 1..Len(seq) : seq[i] = c
IsIn(seq, c) == \E i \in 1..Len(seq) : seq[i] = c

\* tr '[:lower:]' '[:upper:]' on one character and on a text.
UpperChar(c) == IF IsIn(LowerChars, c) THEN UpperChars[IndexIn(LowerChars, c)] ELSE c
LowerChar(c) == IF IsIn(UpperChars, c) THEN LowerChars[IndexIn(UpperChars, c)] ELSE c
ToUpper(s) == [i \in 1..Len(s) |-> UpperChar(s[i])]
ToLower(s) == [i \in 1..Len(s) |-> LowerChar(s[i])]

\* s contains kw as a substring (an unanchored bash regex of a literal).
Contains(s, kw) ==
    \E i \in 1..(Len(s) - Len(kw) + 1) : SubSeq(s, i, i + Len(kw) - 1) = kw
ContainsAny(s, kws) == \E kw \in kws : Contains(s, kw)

\* Position of the last occurrence of character c in s, 0 when there is none.
LastIndexOf(s, c) ==
    IF IsIn(s, c) THEN CHOOSE i \in 1..Len(s) :
                          s[i] = c /\ \A j \in (i + 1)..Len(s) : s[j] # c
    ELSE 0

\* Byte-wise "less than" of two texts.
TextLess(a, b) ==
    \E i \in 1..(Len(a) + 1) :
        /\ i <= Len(b)
        /\ SubSeq(a, 1, i - 1) = SubSeq(b, 1, i - 1)
        /\ \/ i = Len(a) + 1
           \/ i <= Len(a) /\ IndexIn(ByteOrder, a[i]) < IndexIn(ByteOrder, b[i])

\* ------------------------------------------------------------------ texts

T_street == <<"s", "t", "r", "e", "e", "t">>
T_urban == <<"u", "r", "b", "a", "n">>
T_city == <<"c", "i", "t", "y">>
T_face == <<"f", "a", "c", "e">>
T_portrait == <<"p", "o", "r", "t", "r", "a", "i", "t">>
T_person == <<"p", "e", "r", "s", "o", "n">>
T_people == <<"p", "e", "o", "p", "l", "e">>
T_faces == <<"f", "a", "c", "e", "s">>
T_nature == <<"n", "a", "t", "u", "r", "e">>
T_landscape == <<"l", "a", "n", "d", "s", "c", "a", "p", "e">>
T_forest == <<"f", "o", "r", "e", "s", "t">>
T_mountain == <<"m", "o", "u", "n", "t", "a", "i", "n">>
T_ocean == <<"o", "c", "e", "a", "n">>
T_tree == <<"t", "r", "e", "e">>
T_Unknown == <<"Unknown">>
T_jpg == <<"j", "p", "g">>
T_jpeg == <<"j", "p", "e", "g">>
T_png == <<"p", "n", "g">>
T_JPG == <<"J", "P", "G">>
T_JPEG == <<"J", "P", "E", "G">>
T_PNG == <<"P", "N", "G">>
DigitChars == <<"0", "1", "2", "3", "4", "5", "6", "7", "8", "9">>

\* File names of the photo directory used by the command model.
N_street_002_sunset_jpg == <<"s", "t", "r", "e", "e", "t", "_", "0", "0", "2", "_", "s", "u", "n", "s", "e", "t", ".", "j", "p", "g">>
N_forest_walk_png == <<"f", "o", "r", "e", "s", "t", "_", "w", "a", "l", "k", ".", "p", "n", "g">>
N_faces_001_city_jpg == <<"f", "a", "c", "e", "s", "_", "0", "0", "1", "_", "c", "i", "t", "y", ".", "j", "p", "g">>

\* Values given to `update`.
V_Foo == <<"F", "o", "o">>
V_37_8199 == <<"3", "7", ".", "8", "1", "9", "9">>

\* ------------------------------------------------------------------ configuration
\* A text that the script never takes apart is written in whole pieces.
GITHUB_USER == <<"jodiejacobs">>
REPO_NAME == <<"jodiejacobs-photography">>
RELEASE_TAG == <<"v1.0.0">>
PORTFOLIO_DIR == "photos"
BASE_URL ==
    <<"https://github.com/">> \o GITHUB_USER \o <<"/">> \o REPO_NAME
        \o <<"/releases/download/">> \o RELEASE_TAG

\* ------------------------------------------------------------------ JSON values
Num(n) == [tag |-> "num", val |-> n]
Str(s) == [tag |-> "str", val |-> s]
Null == [tag |-> "null", val |-> <<>>]

\* ------------------------------------------------------------------ classifier
\* sed 's/\.[^.]*$//': drop the last dot and what follows it.
StripExtension(filename) ==
    LET d == LastIndexOf(filename, ".")
    IN  IF d = 0 THEN filename ELSE SubSeq(filename, 1, d - 1)

StreetKeywords == {T_street, T_urban, T_city}
FacesKeywords == {T_face, T_portrait, T_person, T_people}
NatureKeywords == {T_nature, T_landscape, T_forest, T_mountain, T_ocean, T_tree}

\* The chain with the faces keywords tried before the street keywords.
DetectCategoryFacesFirst(basename) ==
    IF ContainsAny(basename, FacesKeywords) THEN T_faces
    ELSE IF ContainsAny(basename, StreetKeywords) THEN T_street
    ELSE IF ContainsAny(basename, NatureKeywords) THEN T_nature
    ELSE T_street

\* The if/elif chain on the basename; "street" is the default.
DetectCategory(basename) ==
    IF ContainsAny(basename, StreetKeywords) THEN T_street
    ELSE IF ContainsAny(basename, FacesKeywords) THEN T_faces
    ELSE IF ContainsAny(basename, NatureKeywords) THEN T_nature
    ELSE T_street

\* The title when the underscore pattern never matches.
ExtractTitleWhole(basename) == ToUpper(basename)

\* [[ "$basename" =~ _([^_]+)$ ]]: the non-empty text after the last
\* underscore, else the whole basename; upper-cased by tr in both branches.
ExtractTitle(basename) ==
    LET u == LastIndexOf(basename, "_")
    IN  IF u > 0 /\ u < Len(basename)
        THEN ToUpper(SubSeq(basename, u + 1, Len(basename)))
        ELSE ToUpper(basename)

extract_photo_info(filename) ==
    LET basename == StripExtension(filename)
    IN  [category |-> DetectCategory(basename), title |-> ExtractTitle(basename)]

\* ------------------------------------------------------------------ scanner
\* The six glob patterns of the for loop, in the order they are written.
GlobExtensions == <<T_jpg, T_jpeg, T_png, T_JPG, T_JPEG, T_PNG>>

EndsWith(s, suffix) ==
    /\ Len(s) >= Len(suffix)
    /\ SubSeq(s, Len(s) - Len(suffix) + 1, Len(s)) = suffix

\* name matches *.ext (a leading dot is not matched by *).
MatchesGlob(name, ext) == EndsWith(name, <<".">> \o ext) /\ name[1] # "."

RECURSIVE SortedSeq(_)
SortedSeq(S) ==
    IF S = {} THEN <<>>
    ELSE LET m == CHOOSE x \in S : \A y \in S \ {x} : TextLess(x, y)
         IN  <<m>> \o SortedSeq(S \ {m})

\* Expansion of "$PORTFOLIO_DIR"/*.jpg ... "$PORTFOLIO_DIR"/*.PNG over the
\* names in the directory: pattern by pattern, each expansion sorted.
RECURSIVE GlobFrom(_, _)
GlobFrom(names, k) ==
    IF k > Len(GlobExtensions) THEN <<>>
    ELSE SortedSeq({n \in names : MatchesGlob(n, GlobExtensions[k])})
             \o GlobFrom(names, k + 1)

Glob(names) == GlobFrom(names, 1)

Range(seq) == {seq[i] : i \in 1..Len(seq)}

\* date +%Y-%m-%d on day number d of the modelled month.
DateText(d) ==
    <<"2025-01-", DigitChars[(d \div 10) + 1], DigitChars[(d % 10) + 1]>>

\* The object with a latitude of zero in place of null.
PhotoObjLatZero(photo_id, filename, date) ==
    LET info == extract_photo_info(filename)
    IN  [id |-> Num(photo_id),
         title |-> Str(info.title),
         category |-> Str(info.category),
         thumbnail |-> Str(BASE_URL \o <<"/">> \o filename),
         full |-> Str(BASE_URL \o <<"/">> \o filename),
         lat |-> Num(0),
         lng |-> Null,
         location |-> Str(T_Unknown),
         date |-> Str(date),
         filename |-> Str(filename),
         original_file |-> Str(filename)]

\* The object built by jq -n for one image.
PhotoObj(photo_id, filename, date) ==
    LET info == extract_photo_info(filename)
    IN  [id |-> Num(photo_id),
         title |-> Str(info.title),
         category |-> Str(info.category),
         thumbnail |-> Str(BASE_URL \o <<"/">> \o filename),
         full |-> Str(BASE_URL \o <<"/">> \o filename),
         lat |-> Null,
         lng |-> Null,
         location |-> Str(T_Unknown),
         date |-> Str(date),
         filename |-> Str(filename),
         original_file |-> Str(filename)]

\* photos_array after the loop: photo_id starts at 1 and is incremented
\* once per image, in glob order.
ScanArray(imgs, date) == [i \in 1..Len(imgs) |-> PhotoObj(i, imgs[i], date)]

\* ------------------------------------------------------------------ photos.json
\* Content of the file photos.json.
Absent == [kind |-> "absent", val |-> <<>>]        \* no such file
Empty == [kind |-> "empty", val |-> <<>>]          \* zero bytes
Blank == [kind |-> "blank", val |-> <<>>]          \* a single newline
Partial == [kind |-> "partial", val |-> <<>>]      \* a cut-off JSON text
Json(arr) == [kind |-> "json", val |-> arr]        \* the full text of arr

\* .[$field] = $value on one object: --arg passes the value as a string.
SetField(obj, field, value) ==
    [k \in DOMAIN obj \cup {field} |-> IF k = field THEN Str(value) ELSE obj[k]]

\* The map without its condition: the field is set in every record.
UpdatedArrayAll(arr, filename, field, value) ==
    [i \in 1..Len(arr) |-> SetField(arr[i], field, value)]

\* map(if .filename == $filename then .[$field] = $value else . end)
UpdatedArray(arr, filename, field, value) ==
    [i \in 1..Len(arr) |->
        IF arr[i].filename = Str(filename)
        THEN SetField(arr[i], field, value)
        ELSE arr[i]]

\* ------------------------------------------------------------------ state
VARIABLES
    photosDirExists,  \* the directory $PORTFOLIO_DIR exists
    files,            \* the image files on disk, as [dir, name] paths
    today,            \* the day `date` reports
    release,          \* the GitHub release $RELEASE_TAG and its assets
    photosJson,       \* content of the file $PHOTOS_JSON
    lastCmd,          \* the command run last
    exitCode,         \* its exit status
    uploaded,         \* the assets it uploaded
    failedUploads,    \* the assets whose upload it attempted and lost
    events,           \* number of edits, directory changes and midnights so far
    git,              \* photos.json as the index, HEAD and the remote branch hold it
    committed,        \* the last deploy made a commit
    pushAttempted     \* the last deploy ran git push

envVars == <<photosDirExists, files, today, events>>
runVars == <<lastCmd, exitCode, uploaded, failedUploads>>
gitVars == <<git, committed, pushAttempted>>
vars == <<photosDirExists, files, today, release, photosJson,
          lastCmd, exitCode, uploaded, failedUploads, events,
          git, committed, pushAttempted>>

PhotoNames == {N_street_002_sunset_jpg, N_forest_walk_png, N_faces_001_city_jpg}

\* The names of the files that come and go while the commands run.
ChangingNames == {N_street_002_sunset_jpg, N_forest_walk_png}

Path(dir, name) == [dir |-> dir, name |-> name]

\* The paths that may exist: the photo directory's files and the path of
\* the README's example, which lies in another directory and stays there.
ExamplePath == Path("portfolio", N_street_002_sunset_jpg)
Paths ==
    {Path(PORTFOLIO_DIR, n) : n \in PhotoNames}
        \cup {ExamplePath}
ChangingPaths == {Path(PORTFOLIO_DIR, n) : n \in ChangingNames}

\* The <field> <value> pairs given to `update`: fields of the README's
\* examples and two keys that are not meant to be edited.
UpdateArgs ==
    {<<"title", V_Foo>>, <<"lat", V_37_8199>>, <<"lng", V_37_8199>>,
     <<"id", V_37_8199>>, <<"filename", V_Foo>>}

NoRelease == [exists |-> FALSE, assets |-> {}]

\* The repository before photos.json was ever staged, and no deploy run.
NoDeploy ==
    /\ git = [index |-> Absent, head |-> Absent, remote |-> Absent]
    /\ committed = FALSE
    /\ pushAttempted = FALSE

\* Names of the entries of $PORTFOLIO_DIR.
Listing ==
    IF photosDirExists
    THEN {p.name : p \in {q \in files : q.dir = PORTFOLIO_DIR}}
    ELSE {}

\* Points at which a run may be terminated from outside.
ScanKills == {"none", "after_truncate", "mid_write"}
UpdateKills == {"none", "after_truncate"}

Init ==
    /\ photosDirExists = TRUE
    /\ \E present \in SUBSET ChangingPaths : files = present \cup {ExamplePath}
    /\ today = 1
    /\ release = NoRelease
    /\ photosJson = Absent
    /\ lastCmd = "none"
    /\ exitCode = 0
    /\ uploaded = {}
    /\ failedUploads = {}
    /\ events = 0
    /\ NoDeploy

\* ------------------------------------------------------------------ functions of the script
\* manage_release: `failed` are the assets whose upload gh loses and
\* `cleanup` tells whether gh removes the release it could not complete.
\* exit = 0 means that the function returned and the script goes on.
manage_release(force_recreate, failed, cleanup) ==
    IF release.exists /\ ~force_recreate
    THEN [release |-> release, exit |-> 0, uploaded |-> {}, failed |-> {}]
    ELSE LET image_files == Glob(Listing)
             all == Range(image_files)
         IN  IF Len(image_files) = 0
             THEN [release |-> NoRelease, exit |-> 1,
                   uploaded |-> {}, failed |-> {}]
             ELSE IF failed \cap all = {}
             THEN [release |-> [exists |-> TRUE, assets |-> all], exit |-> 0,
                   uploaded |-> all, failed |-> {}]
             ELSE [release |-> IF cleanup THEN NoRelease
                               ELSE [exists |-> TRUE, assets |-> all \ failed],
                   exit |-> 1,
                   uploaded |-> all \ failed, failed |-> failed \cap all]

\* scan_portfolio: the content of photos.json and the exit status it ends
\* with; `kill` is the point at which the run is terminated, if any.
\* The redirection > "$PHOTOS_JSON" truncates the file before jq writes.
scan_portfolio(kill) ==
    IF ~photosDirExists
    THEN [json |-> photosJson, exit |-> 1]
    ELSE LET photos_array == ScanArray(Glob(Listing), DateText(today))
         IN  CASE kill = "none" -> [json |-> Json(photos_array), exit |-> 0]
               [] kill = "after_truncate" -> [json |-> Empty, exit |-> 137]
               [] kill = "mid_write" -> [json |-> Partial, exit |-> 137]

\* update_photo past the -f test: what `echo "$updated_json" >` leaves in
\* the file. jq prints nothing for an empty or unparsable input, and
\* `local x=$(jq ...)` hides jq's exit status from set -e.
update_photo(filename, field, value) ==
    IF photosJson.kind = "json"
    THEN Json(UpdatedArray(photosJson.val, filename, field, value))
    ELSE Blank

\* deploy as the earlier script of the file has it: it returns when there is
\* nothing to commit, before any push.
deployUnlessClean(commit_ok, push_ok) ==
    IF photosJson.kind = "absent"
    THEN [git |-> git, committed |-> FALSE, pushAttempted |-> FALSE,
          exit |-> 128]
    ELSE IF photosJson = git.head
    THEN [git |-> [git EXCEPT !.index = photosJson],
          committed |-> FALSE, pushAttempted |-> FALSE, exit |-> 0]
    ELSE IF ~commit_ok
    THEN [git |-> [git EXCEPT !.index = photosJson],
          committed |-> FALSE, pushAttempted |-> FALSE, exit |-> 1]
    ELSE [git |-> [index |-> photosJson, head |-> photosJson,
                   remote |-> IF push_ok THEN photosJson ELSE git.remote],
          committed |-> TRUE, pushAttempted |-> TRUE,
          exit |-> IF push_ok THEN 0 ELSE 1]

\* deploy: git add fails on a path that does not exist; git diff --cached
\* --quiet compares the index with HEAD; `commit_ok` and `push_ok` tell
\* whether git commit and git push succeed. Under set -e the first failing
\* command ends the script with its status.
deploy(commit_ok, push_ok) ==
    IF photosJson.kind = "absent"
    THEN [git |-> git, committed |-> FALSE, pushAttempted |-> FALSE,
          exit |-> 128]
    ELSE LET changes == photosJson # git.head
         IN  IF changes /\ ~commit_ok
             THEN [git |-> [git EXCEPT !.index = photosJson],
                   committed |-> FALSE, pushAttempted |-> FALSE, exit |-> 1]
             ELSE [git |-> [index |-> photosJson, head |-> photosJson,
                            remote |-> IF push_ok THEN photosJson
                                       ELSE git.remote],
                   committed |-> changes, pushAttempted |-> TRUE,
                   exit |-> IF push_ok THEN 0 ELSE 1]

\* check_dependencies fails: gh is missing or not authenticated.
DependenciesMissing(command) ==
    /\ lastCmd' = command
    /\ exitCode' = 1
    /\ uploaded' = {}
    /\ failedUploads' = {}
    /\ UNCHANGED <<envVars, release, photosJson, gitVars>>

\* ------------------------------------------------------------------ commands
\* ./update_portfolio.sh setup [--force]
SetupCmd(force_flag) ==
    \/ DependenciesMissing("setup")
    \/ \E failed \in SUBSET Listing, cleanup \in BOOLEAN :
          LET m == manage_release(force_flag, failed, cleanup)
          IN  /\ m.exit # 0
              /\ lastCmd' = "setup"
              /\ release' = m.release
              /\ uploaded' = m.uploaded
              /\ failedUploads' = m.failed
              /\ exitCode' = m.exit
              /\ UNCHANGED <<envVars, photosJson, gitVars>>
    \/ \E kill \in ScanKills :
          LET m == manage_release(force_flag, {}, FALSE)
              s == scan_portfolio(kill)
          IN  /\ m.exit = 0
              /\ lastCmd' = "setup"
              /\ release' = m.release
              /\ uploaded' = m.uploaded
              /\ failedUploads' = m.failed
              /\ photosJson' = s.json
              /\ exitCode' = s.exit
              /\ UNCHANGED <<envVars, gitVars>>

\* ./update_portfolio.sh add <image_path>
\* gh release upload fails when the release does not exist, when an asset
\* of that name is already there (no --clobber), or when the transfer is
\* lost (`lost`).
AddCmd(image_path) ==
    \/ DependenciesMissing("add")
    \/ /\ image_path \notin files
       /\ lastCmd' = "add"
       /\ exitCode' = 1
       /\ uploaded' = {}
       /\ failedUploads' = {}
       /\ UNCHANGED <<envVars, release, photosJson, gitVars>>
    \/ /\ image_path \in files
       /\ \E lost \in BOOLEAN :
             /\ ~release.exists \/ image_path.name \in release.assets \/ lost
             /\ lastCmd' = "add"
             /\ exitCode' = 1
             /\ uploaded' = {}
             /\ failedUploads' = {image_path.name}
             /\ UNCHANGED <<envVars, release, photosJson, gitVars>>
    \/ /\ image_path \in files
       /\ release.exists
       /\ image_path.name \notin release.assets
       /\ \E kill \in ScanKills :
             LET s == scan_portfolio(kill)
             IN  /\ lastCmd' = "add"
                 /\ release' = [release EXCEPT !.assets = @ \cup {image_path.name}]
                 /\ uploaded' = {image_path.name}
                 /\ failedUploads' = {}
                 /\ photosJson' = s.json
                 /\ exitCode' = s.exit
                 /\ UNCHANGED <<envVars, gitVars>>

\* ./update_portfolio.sh update <filename> <field> <value>
UpdateCmd(filename, field, value) ==
    /\ events < MaxEvents
    /\ events' = events + 1
    /\ lastCmd' = "update"
    /\ uploaded' = {}
    /\ failedUploads' = {}
    /\ UNCHANGED <<photosDirExists, files, today, release, gitVars>>
    /\ \/ /\ photosJson.kind = "absent"
          /\ exitCode' = 1
          /\ UNCHANGED photosJson
       \/ /\ photosJson.kind # "absent"
          /\ \E kill \in UpdateKills :
                IF kill = "none"
                THEN /\ photosJson' = update_photo(filename, field, value)
                     /\ exitCode' = 0
                ELSE /\ photosJson' = Empty
                     /\ exitCode' = 137

\* deploy once check_dependencies has passed.
DeployRun(commit_ok, push_ok) ==
    LET d == deploy(commit_ok, push_ok)
    IN  /\ lastCmd' = "deploy"
        /\ exitCode' = d.exit
        /\ git' = d.git
        /\ committed' = d.committed
        /\ pushAttempted' = d.pushAttempted
        /\ uploaded' = {}
        /\ failedUploads' = {}
        /\ UNCHANGED <<envVars, release, photosJson>>

\* ./update_portfolio.sh deploy
DeployCmd ==
    \/ /\ lastCmd' = "deploy"
       /\ exitCode' = 1
       /\ committed' = FALSE
       /\ pushAttempted' = FALSE
       /\ uploaded' = {}
       /\ failedUploads' = {}
       /\ UNCHANGED <<envVars, release, photosJson, git>>
    \/ \E commit_ok \in BOOLEAN, push_ok \in BOOLEAN :
          DeployRun(commit_ok, push_ok)

\* ------------------------------------------------------------------ environment
\* The operator copies an image into place.
AddFile(p) ==
    /\ events < MaxEvents
    /\ p \notin files
    /\ p.dir = PORTFOLIO_DIR => photosDirExists
    /\ files' = files \cup {p}
    /\ events' = events + 1
    /\ UNCHANGED <<photosDirExists, today, release, photosJson, runVars, gitVars>>

\* The operator deletes an image.
RemoveFile(p) ==
    /\ events < MaxEvents
    /\ p \in files
    /\ files' = files \ {p}
    /\ events' = events + 1
    /\ UNCHANGED <<photosDirExists, today, release, photosJson, runVars, gitVars>>

\* The operator deletes the photo directory and what it holds.
RemoveDir ==
    /\ events < MaxEvents
    /\ photosDirExists
    /\ photosDirExists' = FALSE
    /\ files' = {p \in files : p.dir # PORTFOLIO_DIR}
    /\ events' = events + 1
    /\ UNCHANGED <<today, release, photosJson, runVars, gitVars>>

\* Midnight passes.
Tick ==
    /\ events < MaxEvents
    /\ events' = events + 1
    /\ today' = today + 1
    /\ UNCHANGED <<photosDirExists, files, release, photosJson, runVars, gitVars>>

Setup == \E force_flag \in BOOLEAN : SetupCmd(force_flag)
Add == \E image_path \in Paths : AddCmd(image_path)
Update ==
    \E filename \in PhotoNames, arg \in UpdateArgs :
        UpdateCmd(filename, arg[1], arg[2])
FileSystem ==
    \/ \E p \in ChangingPaths : AddFile(p)
    \/ \E p \in ChangingPaths : RemoveFile(p)
    \/ RemoveDir

Next == Setup \/ Add \/ Update \/ FileSystem \/ Tick

Spec == Init /\ [][Next]_vars

Deploy == DeployCmd

\* The state a first setup leaves: the release holds the images of the
\* photo directory and photos.json their records; nothing is staged yet.
InitDeploy ==
    /\ photosDirExists = TRUE
    /\ \E present \in SUBSET ChangingPaths : files = present \cup {ExamplePath}
    /\ today = 1
    /\ Listing # {}
    /\ release = [exists |-> TRUE, assets |-> Listing]
    /\ photosJson = Json(ScanArray(Glob(Listing), DateText(today)))
    /\ lastCmd = "setup"
    /\ exitCode = 0
    /\ uploaded = Listing
    /\ failedUploads = {}
    /\ events = 0
    /\ NoDeploy

\* The README's round of edits and deploys after the setup.
NextDeploy == Update \/ Deploy

SpecDeploy == InitDeploy /\ [][NextDeploy]_vars

\* ------------------------------------------------------------------ upload runs
\* The commands that upload, started in a release-less project whose
\* photo directory holds any of the three images.
InitUpload ==
    /\ photosDirExists = TRUE
    /\ \E present \in SUBSET PhotoNames :
          files = {Path(PORTFOLIO_DIR, n) : n \in present} \cup {ExamplePath}
    /\ today = 1
    /\ release = NoRelease
    /\ photosJson = Absent
    /\ lastCmd = "none"
    /\ exitCode = 0
    /\ uploaded = {}
    /\ failedUploads = {}
    /\ events = 0
    /\ NoDeploy

NextUpload == Setup \/ Add

SpecUpload == InitUpload /\ [][NextUpload]_vars

\* ------------------------------------------------------------------ classification runs
\* File names of the README's pattern [category]_[number]_[title].[ext].
CategoryTokens == {T_street, T_faces, T_nature}
NumberTokens == {<<"0", "0", "2">>, <<"1", "2">>}
TK_sunset == <<"s", "u", "n", "s", "e", "t">>
TK_Bridge == <<"B", "r", "i", "d", "g", "e">>
TK_dscf2561 == <<"d", "s", "c", "f", "2", "5", "6", "1">>
TK_old_tree == <<"o", "l", "d", "_", "t", "r", "e", "e">>
TitleTokens ==
    {TK_sunset, TK_Bridge, TK_dscf2561, TK_old_tree, T_city, T_street}
ExtensionTokens == {T_jpg, T_png, T_JPG}

StructuredName(category, number, title, ext) ==
    category \o <<"_">> \o number \o <<"_">> \o title \o <<".">> \o ext

StructuredNames ==
    {StructuredName(c, n, t, e) :
        c \in CategoryTokens, n \in NumberTokens,
        t \in TitleTokens, e \in ExtensionTokens}

\* File names that do not follow the pattern.
U_city_portrait_jpg == <<"c", "i", "t", "y", "_", "p", "o", "r", "t", "r", "a", "i", "t", ".", "j", "p", "g">>
U_portrait_forest_jpg == <<"p", "o", "r", "t", "r", "a", "i", "t", "_", "f", "o", "r", "e", "s", "t", ".", "j", "p", "g">>
U_people_tree_png == <<"p", "e", "o", "p", "l", "e", "_", "t", "r", "e", "e", ".", "p", "n", "g">>
U_urban_ocean_JPG == <<"u", "r", "b", "a", "n", "_", "o", "c", "e", "a", "n", ".", "J", "P", "G">>
U_mountain_jpeg == <<"m", "o", "u", "n", "t", "a", "i", "n", ".", "j", "p", "e", "g">>
U_landscape_person_png == <<"l", "a", "n", "d", "s", "c", "a", "p", "e", "_", "p", "e", "r", "s", "o", "n", ".", "p", "n", "g">>
U_IMG_1234_jpg == <<"I", "M", "G", "_", "1", "2", "3", "4", ".", "j", "p", "g">>
UnstructuredNames ==
    {N_forest_walk_png, U_city_portrait_jpg, U_portrait_forest_jpg,
     U_people_tree_png, U_urban_ocean_JPG, U_mountain_jpeg,
     U_landscape_person_png, U_IMG_1234_jpg}

ClassifyNames == StructuredNames \cup UnstructuredNames

\* A first setup in a photo directory that holds one such image.
InitClassify ==
    /\ photosDirExists = TRUE
    /\ \E n \in ClassifyNames : files = {Path(PORTFOLIO_DIR, n)}
    /\ today = 1
    /\ release = NoRelease
    /\ photosJson = Absent
    /\ lastCmd = "none"
    /\ exitCode = 0
    /\ uploaded = {}
    /\ failedUploads = {}
    /\ events = 0
    /\ NoDeploy

NextClassify == Setup

SpecClassify == InitClassify /\ [][NextClassify]_vars

\* ------------------------------------------------------------------ properties
\* The objects of a photos.json content, and those of one file name.
Records(content) == IF content.kind = "json" THEN Range(content.val) ELSE {}
RecordsOf(content, filename) ==
    {r \in Records(content) : r.filename = Str(filename)}

EditableFields == {"title", "category", "location", "lat", "lng"}

\* This step is a run of setup or add that ended with status 0, hence one
\* in which scan_portfolio wrote photos.json.
ScanCompleted == (Setup \/ Add) /\ exitCode' = 0

\* The state is the one a completed setup or add left.
AfterScan == lastCmd \in {"setup", "add"} /\ exitCode = 0

\* C1 (as claimed): a scan over a directory that still contains x leaves
\* every editable field of x's record as it was stored, so that a value
\* set by `update x title Foo` is still there after the scan.
C1_EditSurvivesScan ==
    [][\A x \in PhotoNames, field \in EditableFields :
          (ScanCompleted /\ x \in Listing)
              => \A r \in RecordsOf(photosJson, x) :
                    \E r2 \in RecordsOf(photosJson', x) : r2[field] = r[field]]_vars

\* C2 (as claimed): a file name to which a scan gave an id in photos.json
\* has the same id after a later scan, whatever files were added or removed
\* in between.
C2_IdStableAcrossScans ==
    [][\A f \in PhotoNames :
          (ScanCompleted /\ RecordsOf(photosJson', f) # {})
              => \A r \in RecordsOf(photosJson, f) :
                    r.id.tag = "num"
                        => \A r2 \in RecordsOf(photosJson', f) : r2.id = r.id]_vars

\* C3 (as claimed): a scan run after f was removed from the directory
\* leaves f's record in photos.json, with all its fields.
C3_NoPruning ==
    [][\A f \in PhotoNames :
          (ScanCompleted /\ f \notin Listing)
              => RecordsOf(photosJson, f) \subseteq Records(photosJson')]_vars

\* C4 (as claimed): a `setup` that follows a completed `setup`, with the
\* release in place, no edit in between and the directory holding what
\* photos.json lists, writes the same photos.json again and uploads nothing.
C4_SetupIdempotent ==
    [][(/\ lastCmd = "setup" /\ exitCode = 0
        /\ release.exists
        /\ photosJson.kind = "json"
        /\ {r.filename : r \in Records(photosJson)} = {Str(n) : n \in Listing}
        /\ SetupCmd(FALSE)
        /\ exitCode' = 0)
          => photosJson' = photosJson /\ uploaded' = {}]_vars

C6_UpdateRejectsBadInput ==
    [][\A f \in PhotoNames, arg \in UpdateArgs :
          UpdateCmd(f, arg[1], arg[2]) =>
              /\ (RecordsOf(photosJson, f) = {} \/ arg[1] \notin EditableFields)
                    => exitCode' # 0
              /\ (photosJson.kind = "json" /\ photosJson'.kind = "json")
                    => \A i \in 1..Len(photosJson.val) :
                          \A k \in {"id", "filename", "thumbnail", "full"} :
                              photosJson'.val[i][k] = photosJson.val[i][k]]_vars

\* Every record of the content names an asset of the release.
AllUploaded(content, rel) ==
    \A r \in Records(content) : \E n \in rel.assets : r.filename = Str(n)

\* C7 (as claimed): a completed setup or add that finds a photos.json whose
\* records all name assets of the release leaves such a photos.json, also
\* when files were added to the directory since the release was created.
C7_UploadedBeforePublished ==
    [][(ScanCompleted /\ photosJson.kind = "json"
                      /\ AllUploaded(photosJson, release))
          => AllUploaded(photosJson', release')]_vars

\* C8 (as claimed): a run that uploads two files and loses the upload of a
\* third ends with a non-zero status and leaves a photos.json with records
\* for the two and none for the third.
C8_PartialFailureIsolated ==
    (/\ lastCmd \in {"setup", "add"}
     /\ Cardinality(failedUploads) = 1
     /\ Cardinality(uploaded) = 2)
        => /\ exitCode # 0
           /\ photosJson.kind = "json"
           /\ \A n \in uploaded : RecordsOf(photosJson, n) # {}
           /\ \A n \in failedUploads : RecordsOf(photosJson, n) = {}

\* C9 (as claimed): photos.json is never left empty or cut off, whenever a
\* run of scan_portfolio or update_photo is terminated.
C9_AtomicReplacement == photosJson.kind \notin {"empty", "partial"}

\* The title token with its first letter in upper case and the rest in
\* lower case.
Capitalized(token) == <<UpperChar(Head(token))>> \o ToLower(Tail(token))

\* C10 (as claimed): the record of street_<number>_<title>.<ext> has the
\* category street and the capitalized title token as its title.
C10_StreetTitleCapitalized ==
    \A n \in NumberTokens, t \in TitleTokens, e \in ExtensionTokens :
        \A r \in RecordsOf(photosJson, StructuredName(T_street, n, t, e)) :
            r.category = Str(T_street) /\ r.title = Str(Capitalized(t))

\* What the script makes of each title token.
TITLE_SUNSET == <<"S", "U", "N", "S", "E", "T">>
TITLE_BRIDGE == <<"B", "R", "I", "D", "G", "E">>
TITLE_DSCF2561 == <<"D", "S", "C", "F", "2", "5", "6", "1">>
TITLE_TREE == <<"T", "R", "E", "E">>
TITLE_CITY == <<"C", "I", "T", "Y">>
TITLE_STREET == <<"S", "T", "R", "E", "E", "T">>
UpperTitle(t) ==
    CASE t = TK_sunset -> TITLE_SUNSET
      [] t = TK_Bridge -> TITLE_BRIDGE
      [] t = TK_dscf2561 -> TITLE_DSCF2561
      [] t = TK_old_tree -> TITLE_TREE
      [] t = T_city -> TITLE_CITY
      [] t = T_street -> TITLE_STREET

\* C10 (amended): the record of street_<number>_<title>.<ext> has the
\* category street and, as its title, the part of the title token after
\* its last underscore (the whole token when it has none) in upper case.
C10_StreetTitleUpperCase ==
    \A n \in NumberTokens, t \in TitleTokens, e \in ExtensionTokens :
        \A r \in RecordsOf(photosJson, StructuredName(T_street, n, t, e)) :
            r.category = Str(T_street) /\ r.title = Str(UpperTitle(t))

\* photos.json holds the record of street_002_sunset.jpg.
C10_Witness ==
    /\ AfterScan
    /\ RecordsOf(photosJson, N_street_002_sunset_jpg) # {}

\* C11 (as claimed): the record of <category>_<number>_<title>.<ext> with
\* the category token faces, street or nature has that token as its
\* category, whatever keywords the title holds.
C11_CategoryTokenWins ==
    \A c \in CategoryTokens, n \in NumberTokens,
       t \in TitleTokens, e \in ExtensionTokens :
        \A r \in RecordsOf(photosJson, StructuredName(c, n, t, e)) :
            r.category = Str(c)

\* The category that the priority street > faces > nature, with street as
\* the default, gives to each of the unstructured names.
KeywordCategory(name) ==
    CASE name = N_forest_walk_png -> T_nature
      [] name = U_city_portrait_jpg -> T_street
      [] name = U_portrait_forest_jpg -> T_faces
      [] name = U_people_tree_png -> T_faces
      [] name = U_urban_ocean_JPG -> T_street
      [] name = U_mountain_jpeg -> T_nature
      [] name = U_landscape_person_png -> T_faces
      [] name = U_IMG_1234_jpg -> T_street

\* C12: the record of an unstructured name has the category of the first
\* matching keyword group in the order street, faces, nature, and street
\* when no group matches.
C12_KeywordPriority ==
    \A name \in UnstructuredNames :
        \A r \in RecordsOf(photosJson, name) :
            r.category = Str(KeywordCategory(name))

\* photos.json holds the record of a name that matches two keyword groups.
C12_Witness ==
    /\ AfterScan
    /\ RecordsOf(photosJson, U_city_portrait_jpg) # {}

\* C13 (as claimed): when `add <image_path>` completes with exit status 0,
\* photos.json holds exactly one record whose filename is the basename of
\* image_path, and its thumbnail and full are BASE_URL/<basename>; this
\* includes the README's path portfolio/street_002_sunset.jpg.
C13_AddedImageIsRecorded ==
    [][\A image_path \in Paths :
          (AddCmd(image_path) /\ exitCode' = 0)
              => LET rs == RecordsOf(photosJson', image_path.name)
                     url == Str(BASE_URL \o <<"/">> \o image_path.name)
                 IN  /\ Cardinality(rs) = 1
                     /\ \A r \in rs : r.thumbnail = url /\ r.full = url]_vars

\* C14 (as claimed): with the configured image directory missing, setup
\* and add exit non-zero, leave photos.json as it was, and neither upload
\* to nor otherwise change the release.
C14_MissingDirectoryWritesNothing ==
    [][(~photosDirExists /\ (Setup \/ Add))
          => /\ exitCode' # 0
             /\ photosJson' = photosJson
             /\ release' = release
             /\ uploaded' = {}]_vars

\* C15 (as claimed): in every reachable photos.json the ids are integers,
\* the array is in strictly ascending id order (hence the ids are pairwise
\* distinct), and no two records have the same filename.
C15_IdsAndFilenamesUnique ==
    photosJson.kind = "json" =>
        LET arr == photosJson.val
        IN  /\ \A i \in 1..Len(arr) : arr[i].id.tag = "num"
            /\ \A i, j \in 1..Len(arr) :
                  i < j => /\ arr[i].id.val < arr[j].id.val
                           /\ arr[i].filename # arr[j].filename

\* C17: a run of update that ends with status 0 on a photos.json holding a
\* JSON array leaves the number and order of the records as they were,
\* leaves every record with another filename as it was, and in a record
\* with the given filename sets the named field to the value and leaves
\* every other field as it was; with no such record the array is unchanged.
C17_UpdateFrame ==
    [][\A f \in PhotoNames, arg \in UpdateArgs :
          (UpdateCmd(f, arg[1], arg[2]) /\ exitCode' = 0
              /\ photosJson.kind = "json")
              => LET old == photosJson.val
                     new == photosJson'.val
                 IN  /\ photosJson'.kind = "json"
                     /\ Len(new) = Len(old)
                     /\ \A i \in 1..Len(old) :
                           IF old[i].filename = Str(f)
                           THEN /\ DOMAIN new[i] = DOMAIN old[i] \cup {arg[1]}
                                /\ new[i][arg[1]] = Str(arg[2])
                                /\ \A k \in DOMAIN old[i] \ {arg[1]} :
                                      new[i][k] = old[i][k]
                           ELSE new[i] = old[i]
                     /\ RecordsOf(photosJson, f) = {}
                           => photosJson' = photosJson]_vars

\* An update has just set the title of one of two records and left the
\* title of the other.
C17_Witness ==
    /\ lastCmd = "update"
    /\ exitCode = 0
    /\ photosJson.kind = "json"
    /\ Len(photosJson.val) = 2
    /\ \E i, j \in 1..2 :
          /\ photosJson.val[i].title = Str(V_Foo)
          /\ photosJson.val[j].title # Str(V_Foo)

\* C18 (as claimed): a run of update, not terminated from outside, on a
\* photos.json that jq cannot parse ends with a non-zero status and leaves
\* photos.json with the content it had.
C18_FailedUpdateChangesNothing ==
    [][\A f \in PhotoNames, arg \in UpdateArgs :
          (UpdateCmd(f, arg[1], arg[2]) /\ photosJson.kind = "partial"
              /\ exitCode' # 137)
              => /\ exitCode' # 0
                 /\ photosJson' = photosJson]_vars

\* C16: a deploy that gets past check_dependencies never changes the local
\* photos.json; when it ends with the remote behind HEAD (the push failed)
\* its status is non-zero and HEAD holds the local photos.json; when HEAD
\* already holds the local photos.json and the remote does not, it makes no
\* new commit, leaves HEAD as it is and still runs git push; and whenever
\* it ends with status 0 the remote holds the current photos.json.
C16_PublishRetry ==
    [][\A commit_ok \in BOOLEAN, push_ok \in BOOLEAN :
          DeployRun(commit_ok, push_ok)
              => /\ photosJson' = photosJson
                 /\ (pushAttempted' /\ git'.remote # git'.head)
                       => exitCode' # 0 /\ git'.head = photosJson'
                 /\ (git.head = photosJson /\ git.remote # git.head)
                       => /\ ~committed'
                          /\ git'.head = git.head
                          /\ pushAttempted'
                 /\ exitCode' = 0 => git'.remote = photosJson']_vars

\* A deploy has found the commit of an earlier deploy still unpushed: it
\* made no commit, ran git push, and the push failed again.
C16_Witness ==
    /\ lastCmd = "deploy"
    /\ ~committed
    /\ pushAttempted
    /\ exitCode # 0
    /\ git.head = photosJson
    /\ git.remote # git.head
====
